---- MODULE Spec2Model ----
(***************************************************************************)
(* Model of newscat's HTML package: Document.init / Document.Parse locate  *)
(* <html>, <head>, <body>; Article.init then runs cleanBody, countText,    *)
(* parseBody and links the chunks.                                         *)
(*                                                                         *)
(* The DOM below the body is a tree of nodes 0..Len(nodes): node 0 is the  *)
(* body, the others are numbered in document (pre-)order.  parent[n] is    *)
(* n.Parent, Nil once RemoveChild has detached n.  FirstChild/NextSibling  *)
(* are derived from parent and the numbering.  dom keeps the tree as       *)
(* html.Parse returned it.                                                 *)
(***************************************************************************)
EXTENDS Integers, Sequences, FiniteSets, TLC

VARIABLES impl, top, nodes, dom, parent, pc, doc, Chunks, ancestors, linkText, normText

\* Article.GetClusterStats: the ancestorStat map and the result map.
VARIABLES ancestorStat, result

\* main: the arguments, the --extract flag, the producer goroutine's position,
\* inputChannel, the loop variable input, the locations the extraction loop
\* has taken, the Links of the website, main's position and the exit status
\* of the process.
VARIABLES args, extract, producer, inputChannel, closed, input, consumed, Links, mainpc,
          exitStatus

\* printChunks: its argument, the --highlight flag, the loop position, the
\* last chunk printed and the pieces written to standard output.
VARIABLES printed, highlight, printpc, last, stdout

\* util.Text: the codepoints written, the scanner state and the counters.
VARIABLES raw, mode, words, sentences

htmlVars == <<impl, top, nodes, dom, parent, pc, doc, Chunks, ancestors, linkText, normText>>
clusterVars == <<ancestorStat, result>>
mainVars ==
    <<args, extract, producer, inputChannel, closed, input, consumed, Links, mainpc, exitStatus>>
printVars == <<printed, highlight, printpc, last, stdout>>
textVars == <<raw, mode, words, sentences>>

vars == <<htmlVars, clusterVars, mainVars, printVars, textVars>>

\* The parts of the program a run does not exercise stay as they are.
others == <<clusterVars, mainVars, printVars, textVars>>

\* ------------------------------------------------------------------ bounds
MaxNodes == 3
MaxSpine == 6
MaxDeepNodes == 3
MaxOldNodes == 2
MaxArgs == 5

\* ------------------------------------------------------------- DOM (x/net/html)
Nil == -1
Body == 0

ElementNode == "ElementNode"
TextNode == "TextNode"

Type(n) == IF n = Body THEN ElementNode ELSE nodes[n].Type
Data(n) == IF n = Body THEN "body" ELSE nodes[n].Data

SetMin(S) == CHOOSE x \in S : \A y \in S : x <= y

ChildrenOf(par, n) == {c \in DOMAIN par : par[c] = n}

FirstChild(par, n) ==
    IF ChildrenOf(par, n) = {} THEN Nil ELSE SetMin(ChildrenOf(par, n))

NextSibling(par, c) ==
    IF par[c] = Nil THEN Nil
    ELSE LET later == {d \in ChildrenOf(par, par[c]) : d > c}
         IN IF later = {} THEN Nil ELSE SetMin(later)

RemoveChild(par, n, c) == [par EXCEPT ![c] = Nil]

RECURSIVE IsAncestor(_, _, _)
IsAncestor(par, a, n) ==
    IF n = Nil \/ par[n] = Nil THEN FALSE
    ELSE par[n] = a \/ IsAncestor(par, a, par[n])

InTree(par, n) == n = Body \/ IsAncestor(par, Body, n)

\* --------------------------------------------------------- sample documents
Txt(s) == [Type |-> TextNode, Data |-> s, Attr |-> <<>>]
El(tag) == [Type |-> ElementNode, Data |-> tag, Attr |-> <<>>]
ElA(tag, k, v) == [Type |-> ElementNode, Data |-> tag, Attr |-> <<[Key |-> k, Val |-> v]>>]

\* The codepoints of the sample text data (strings are atomic in TLC).
Runes(s) ==
    CASE s = "no 2" -> <<"n", "o", " ", "2">>
      [] s = "k" -> <<"k">>
      [] s = " " -> <<" ">>
      [] s = "k. " -> <<"k", ".", " ">>
      [] OTHER -> <<>>

\* Nodes for the ancestor mask: the containers, a link, text, a skipped div.
KindsMask ==
    { Txt("no 2"), El("a"), El("article"), El("aside"), El("blockquote"),
      El("ul"), El("ol"), ElA("div", "class", "related-box") }

\* Nodes for cleaning, counting and chunk making.
KindsWalk ==
    { Txt("no 2"), Txt(" "), El("div"), El("a"), El("h1"), El("nav"),
      ElA("div", "class", "related-box"), ElA("div", "style", "display: none") }

\* Nodes below a chain of divs, for the depth test of tables.
KindsDeep == { Txt("k"), El("table"), El("nav") }

\* Nodes for the older Document variant and for documents that fail to load.
KindsOld ==
    { Txt("k"), El("article"), ElA("div", "class", "hidden"),
      ElA("div", "style", "display: none"), ElA("div", "title", "related") }

\* Parent vectors of the ordered trees on nodes 0..n whose first s nodes form
\* a chain below the body; nodes are numbered in document order, so the
\* parent of i is i-1 or one of its ancestors.
RECURSIVE OnPath(_, _, _)
OnPath(p, a, n) == a = n \/ (n > 0 /\ OnPath(p, a, p[n]))

RECURSIVE Shapes(_, _)
Shapes(n, s) ==
    IF n = 0 THEN {<<>>}
    ELSE LET ext == { Append(p, a) : p \in Shapes(n - 1, s),
                                     a \in IF n <= s THEN {n - 1} ELSE s..(n - 1) }
         IN { p \in ext : n > 1 => OnPath(p, p[n], n - 1) }

\* Only elements have children.
WellFormed(ns, p) ==
    \A i \in 1..Len(ns) : IF p[i] = Body THEN TRUE ELSE ns[p[i]].Type = ElementNode

ParentOf(p) == [i \in 0..Len(p) |-> IF i = 0 THEN Nil ELSE p[i]]

\* The nodes above and beside the body, in document order; Parent 0 is the
\* document root that html.Parse returns.
TopNode(d, p) == [Data |-> d, Parent |-> p, Attr |-> <<>>]
TopFull == <<TopNode("html", 0), TopNode("head", 1), TopNode("body", 1)>>
TopFrameset == <<TopNode("html", 0), TopNode("head", 1), TopNode("frameset", 1)>>
TopNoHead == <<TopNode("html", 0), TopNode("body", 1)>>
TopNoHtml == <<TopNode("head", 0), TopNode("body", 0)>>
TopHeadOnly == <<TopNode("head", 0)>>
TopEmpty == <<>>
\* Documents whose body element carries an attribute.
TopBodyClass ==
    <<TopNode("html", 0), TopNode("head", 1),
      [TopNode("body", 1) EXCEPT !.Attr = <<[Key |-> "class", Val |-> "related"]>>]>>
TopBodyStyle ==
    <<TopNode("html", 0), TopNode("head", 1),
      [TopNode("body", 1) EXCEPT !.Attr = <<[Key |-> "style", Val |-> "display: none"]>>]>>
TopDocs ==
    {TopFull, TopFrameset, TopNoHead, TopNoHtml, TopHeadOnly, TopEmpty,
     TopBodyClass, TopBodyStyle}

HasBody(t) == \E i \in 1..Len(t) : t[i].Data = "body"

NilDoc == [html |-> Nil, head |-> Nil, body |-> Nil]

\* No document loaded, main not started, nothing printed, nothing written.
HtmlIdle ==
    /\ impl = "Article" /\ top = <<>> /\ nodes = <<>>
    /\ dom = (0 :> Nil) /\ parent = (0 :> Nil)
    /\ pc = "idle" /\ doc = NilDoc /\ Chunks = <<>> /\ ancestors = 0
    /\ linkText = <<>> /\ normText = <<>>

ClusterIdle == ancestorStat = <<>> /\ result = <<>>

\* The zero value of the loop variable of main.
NoInput == [Location |-> "", Data |-> [top |-> <<>>, nodes |-> <<>>, shape |-> <<>>]]

MainIdle ==
    /\ args = <<>> /\ extract = "content" /\ producer = 0
    /\ inputChannel = <<>> /\ closed = FALSE /\ input = NoInput
    /\ consumed = <<>> /\ Links = <<>>
    /\ mainpc = "idle" /\ exitStatus = Nil

PrintIdle ==
    /\ printed = <<>> /\ highlight = FALSE /\ printpc = Nil
    /\ last = Nil /\ stdout = <<>>

TextIdle == raw = <<>> /\ mode = "idle" /\ words = 0 /\ sentences = 0

InitWith(im, t, ns, p) ==
    /\ impl = im
    /\ top = t
    /\ nodes = ns
    /\ dom = ParentOf(p)
    /\ parent = ParentOf(p)
    /\ pc = "start"
    /\ doc = NilDoc
    /\ Chunks = <<>>
    /\ ancestors = 0
    /\ linkText = <<>>
    /\ normText = <<>>
    /\ ClusterIdle /\ MainIdle /\ PrintIdle /\ TextIdle

InitWalk ==
    \E n \in 0..MaxNodes : \E p \in Shapes(n, 0) :
      \E ns \in [1..n -> KindsMask] \cup [1..n -> KindsWalk] :
        /\ WellFormed(ns, p)
        /\ InitWith("Article", TopFull, ns, p)

InitDeep ==
    \E s \in 0..MaxSpine : \E m \in 0..MaxDeepNodes :
      \E p \in Shapes(s + m, s) : \E ks \in [1..m -> KindsDeep] :
        LET ns == [i \in 1..(s + m) |-> IF i <= s THEN El("div") ELSE ks[i - s]]
        IN /\ WellFormed(ns, p)
           /\ InitWith("Article", TopFull, ns, p)

InitOld ==
    \E t \in TopDocs : \E im \in {"Article", "Document"} :
      \E n \in 0..MaxOldNodes : \E p \in Shapes(n, 0) : \E ns \in [1..n -> KindsOld] :
        /\ WellFormed(ns, p)
        /\ IF HasBody(t) THEN TRUE ELSE n = 0
        /\ InitWith(im, t, ns, p)

Init == InitWalk \/ InitDeep \/ InitOld

\* ------------------------------------------------------- Document.init
\* iterateNode(root, f): depth-first walk in document order; a callback that
\* returns IterSkip keeps the walk out of the node's children.
RECURSIVE TopSkipped(_, _)
TopSkipped(t, i) ==
    /\ t[i].Parent # 0
    /\ \/ t[t[i].Parent].Data \in {"body", "head"}
       \/ TopSkipped(t, t[i].Parent)

iterateNodeVisits(t) == {i \in 1..Len(t) : ~TopSkipped(t, i)}

\* Document.setNodes: the children of the root and of every <html> reached.
RECURSIVE setNodesVisits(_, _)
setNodesVisits(t, i) ==
    \/ t[i].Parent = 0
    \/ /\ t[t[i].Parent].Data = "html"
       /\ setNodesVisits(t, t[i].Parent)

Visits(im, t) ==
    IF im = "Article" THEN iterateNodeVisits(t)
    ELSE {i \in 1..Len(t) : setNodesVisits(t, i)}

\* The last assignment to the field wins.
LastWith(t, S, d) ==
    LET hits == {i \in S : t[i].Data = d}
    IN IF hits = {} THEN Nil ELSE CHOOSE i \in hits : \A j \in hits : j <= i

FindNodes(im, t) ==
    [html |-> LastWith(t, Visits(im, t), "html"),
     head |-> LastWith(t, Visits(im, t), "head"),
     body |-> LastWith(t, Visits(im, t), "body")]

\* The attributes of a node; those of the body are on the node of top that
\* Document.init assigns to doc.body.
Attr(n) ==
    IF n = Body
    THEN LET b == FindNodes(impl, top).body IN IF b = Nil THEN <<>> ELSE top[b].Attr
    ELSE nodes[n].Attr

\* Bug variant: an error only when all three are missing.
MissingAllNodes(d) == d.html = Nil /\ d.head = Nil /\ d.body = Nil

MissingNodes(d) == d.html = Nil \/ d.head = Nil \/ d.body = Nil

DocumentInit ==
    /\ pc = "start"
    /\ ~MissingNodes(FindNodes(impl, top))
    /\ doc' = FindNodes(impl, top)
    /\ pc' = "loaded"
    /\ UNCHANGED <<others, impl, top, nodes, dom, parent, Chunks, ancestors, linkText, normText>>

DocumentInitError ==
    /\ pc = "start"
    /\ MissingNodes(FindNodes(impl, top))
    /\ doc' = FindNodes(impl, top)
    /\ pc' = "failed"
    /\ UNCHANGED <<others, impl, top, nodes, dom, parent, Chunks, ancestors, linkText, normText>>

\* ------------------------------------------------------------ cleanBody
StructuralBlacklist ==
    { "address", "audio", "button", "canvas", "caption", "fieldset",
      "figcaption", "figure", "footer", "form", "frame", "iframe",
      "map", "menu", "nav", "noscript", "object", "option", "output",
      "script", "select", "style", "svg", "textarea", "video" }

\* Bug variants: the depth test off by one; attributes tested by the cleaner.
removeNodeOffByOne(c, level) ==
    IF Data(c) \in StructuralBlacklist THEN TRUE
    ELSE IF Data(c) = "table" THEN level >= 5
    ELSE FALSE

removeNodeByAttr(c, level) ==
    IF Data(c) \in StructuralBlacklist THEN TRUE
    ELSE IF Data(c) = "table" THEN level > 5
    ELSE \E i \in 1..Len(Attr(c)) :
            Attr(c)[i].Key \in {"id", "class", "itemprop", "style"}
            /\ Attr(c)[i].Val \in {"related", "related-box", "display: none"}

removeNode(c, level) ==
    IF Data(c) \in StructuralBlacklist THEN TRUE
    ELSE IF Data(c) = "table" THEN level > 5
    ELSE FALSE

\* Bug variants of the loop step: the sibling read after the removal (nil
\* for a removed node), and the element after a removed one passed over.
LoopNextAfterRemove(before, after, curr) == NextSibling(after, curr)

LoopNextSkip(before, after, curr) ==
    IF after # before /\ NextSibling(before, curr) # Nil
    THEN NextSibling(before, NextSibling(before, curr))
    ELSE NextSibling(before, curr)

\* next = curr.NextSibling is read before RemoveChild detaches curr.
LoopNext(before, after, curr) == NextSibling(before, curr)

\* In the recursive walks an argument or intermediate value that is used more
\* than once is bound once, as the element of a one-element set.
RECURSIVE cleanBody(_, _, _), cleanLoop(_, _, _, _)
cleanLoop(par0, n, curr0, level) ==
    CHOOSE v \in
      { IF curr = Nil THEN par
        ELSE CHOOSE w \in
               { cleanLoop(after, n, LoopNext(par, after, curr), level) :
                   after \in { IF Type(curr) = ElementNode
                               THEN IF removeNode(curr, level)
                                    THEN RemoveChild(par, n, curr)
                                    ELSE cleanBody(par, curr, level + 1)
                               ELSE par } } : TRUE :
          par \in {par0}, curr \in {curr0} } : TRUE

cleanBody(par, n, level) == cleanLoop(par, n, FirstChild(par, n), level)

CleanBody ==
    /\ pc = "loaded"
    /\ parent' = cleanBody(parent, Body, 0)
    /\ pc' = "cleaned"
    /\ UNCHANGED <<others, impl, top, nodes, dom, doc, Chunks, ancestors, linkText, normText>>

\* ------------------------------------------------------------ countText
\* unicode.IsLetter on the codepoints of the sample texts.
IsLetter(r) == r \in {"n", "o", "k"}

RECURSIVE LetterCountFrom(_, _)
LetterCountFrom(rs, i) ==
    IF i > Len(rs) THEN 0
    ELSE (IF IsLetter(rs[i]) THEN 1 ELSE 0) + LetterCountFrom(rs, i + 1)

LetterCount(s) == LetterCountFrom(Runes(s), 1)

\* Bug variant: only the children of a link count as inside it.
InsideLinkSelfOnly(n, insideLink) ==
    IF Type(n) = ElementNode THEN Data(n) = "a" ELSE insideLink

InsideLink(n, insideLink) ==
    IF Type(n) = ElementNode /\ Data(n) = "a" THEN TRUE ELSE insideLink

\* The node's own contribution: letters of a text node, to linkText inside a
\* link and to normText outside.
OwnText(n, insideLink) ==
    IF Type(n) = TextNode
    THEN IF insideLink THEN [link |-> LetterCount(Data(n)), norm |-> 0]
         ELSE [link |-> 0, norm |-> LetterCount(Data(n))]
    ELSE [link |-> 0, norm |-> 0]

RECURSIVE countText(_, _, _, _), countChildren(_, _, _, _)
countChildren(par, s0, insideLink0, acc) ==
    CHOOSE v \in
      { IF s = Nil THEN acc
        ELSE CHOOSE w \in
               { countChildren(par, NextSibling(par, s), insideLink, a) :
                   a \in { [link |-> acc.link + r.link, norm |-> acc.norm + r.norm,
                            linkText |-> r.linkText, normText |-> r.normText] :
                              r \in {countText(par, s, insideLink, acc)} } } : TRUE :
          s \in {s0}, insideLink \in {insideLink0} } : TRUE

\* m carries the two maps; link and norm are the returned pair.
countText(par, n, insideLink, m) ==
    CHOOSE v \in
      { [link |-> kids.link + OwnText(n, inside).link,
         norm |-> kids.norm + OwnText(n, inside).norm,
         linkText |-> (n :> (kids.link + OwnText(n, inside).link)) @@ kids.linkText,
         normText |-> (n :> (kids.norm + OwnText(n, inside).norm)) @@ kids.normText] :
           inside \in {InsideLink(n, insideLink)},
           kids \in { countChildren(par, FirstChild(par, n), InsideLink(n, insideLink),
                          [link |-> 0, norm |-> 0,
                           linkText |-> m.linkText, normText |-> m.normText]) } } : TRUE

CountText ==
    /\ pc = "cleaned"
    /\ LET r == countText(parent, Body, FALSE,
                    [link |-> 0, norm |-> 0, linkText |-> linkText, normText |-> normText])
       IN /\ linkText' = r.linkText
          /\ normText' = r.normText
    /\ pc' = "counted"
    /\ UNCHANGED <<others, impl, top, nodes, dom, parent, doc, Chunks, ancestors>>

\* ================================================================ util.Text
MaxRaw == 4
MaxWrite == 2

\* Codepoint classes of the scanner.
Codepoints == {"k", "2", ".", "?", "!", " ", "-"}
IsDigit(c) == c = "2"
IsLetterOrDigit(c) == IsLetter(c) \/ IsDigit(c)
IsTerminalPunct(c) == c \in {".", "?", "!"}
IsWhitespace(c) == c = " "

\* One codepoint through the scanner: t is [mode, words, sentences].
ScanRune(t, c) ==
    CASE IsLetterOrDigit(c) ->
           [mode |-> "Word",
            words |-> IF t.mode \in {"Space", "Punct"} THEN t.words + 1 ELSE t.words,
            sentences |-> t.sentences]
      [] IsTerminalPunct(c) ->
           [mode |-> "Punct", words |-> t.words, sentences |-> t.sentences]
      [] IsWhitespace(c) ->
           [mode |-> "Space",
            words |-> t.words,
            sentences |-> IF t.mode = "Punct" THEN t.sentences + 1 ELSE t.sentences]
      [] OTHER -> t

RECURSIVE Scan(_, _)
Scan(t, cs0) ==
    CHOOSE v \in
      { IF cs = <<>> THEN t
        ELSE CHOOSE r \in {Scan(u, Tail(cs)) : u \in {ScanRune(t, Head(cs))}} : TRUE :
          cs \in {cs0} } : TRUE

\* A new accumulator.
NewText == [mode |-> "Space", words |-> 0, sentences |-> 0]

InitText ==
    /\ raw = <<>>
    /\ mode = NewText.mode
    /\ words = NewText.words
    /\ sentences = NewText.sentences
    /\ HtmlIdle /\ ClusterIdle /\ MainIdle /\ PrintIdle

\* write(codepoints)
Write ==
    \E n \in 1..MaxWrite : \E cs \in [1..n -> Codepoints] :
        /\ Len(raw) + n <= MaxRaw
        /\ LET t == Scan([mode |-> mode, words |-> words, sentences |-> sentences], cs) IN
             /\ mode' = t.mode
             /\ words' = t.words
             /\ sentences' = t.sentences
        /\ raw' = raw \o cs
        /\ UNCHANGED <<htmlVars, clusterVars, mainVars, printVars>>

NextText == Write

SpecText == InitText /\ [][NextText]_vars

\* ------------------------------------------------------------- NewChunk
IsSpace(r) == r = " "

\* iterateText: the text nodes of the subtree in document order.
RECURSIVE SubtreeText(_, _), SiblingsText(_, _)
SiblingsText(par, s0) ==
    CHOOSE v \in
      { IF s = Nil THEN <<>>
        ELSE SubtreeText(par, s) \o SiblingsText(par, NextSibling(par, s)) :
          s \in {s0} } : TRUE

SubtreeText(par, n) ==
    IF Type(n) = TextNode THEN Runes(Data(n))
    ELSE SiblingsText(par, FirstChild(par, n))

\* A chunk remembers the node it was made from (Origin), the element it is
\* based on, its text and the ancestor mask of the article at that moment.
\* The block of a chunk: the nearest element at or above its base with a
\* block-level tag; the body ends the ascent.
BlockTags ==
    {"address", "article", "aside", "blockquote", "br", "dd", "div", "dl",
     "dt", "h1", "h2", "h3", "h4", "h5", "h6", "header", "hr", "li", "ol",
     "p", "pre", "section", "table", "td", "th", "tr", "ul", "body"}

RECURSIVE BlockOf(_, _)
BlockOf(par, n) ==
    IF n = Nil THEN Nil
    ELSE IF Data(n) \in BlockTags THEN n
    ELSE BlockOf(par, par[n])

NewChunk(par, n, anc) ==
    CHOOSE v \in
      { IF \A i \in 1..Len(text) : IsSpace(text[i])
        THEN [err |-> TRUE]
        ELSE [err |-> FALSE,
              chunk |-> [Origin |-> n,
                         Base |-> base,
                         Block |-> BlockOf(par, base),
                         Text |-> text,
                         Words |-> stat.words,
                         Sentences |-> stat.sentences,
                         Ancestors |-> anc,
                         Prev |-> Nil,
                         Next |-> Nil]] :
          text \in {SubtreeText(par, n)},
          base \in {IF Type(n) = TextNode THEN par[n] ELSE n},
          stat \in {Scan(NewText, SubtreeText(par, n))} } : TRUE

\* ------------------------------------------------------------ parseBody
AncestorArticle == 1
AncestorAside == 2
AncestorBlockquote == 4
AncestorList == 8
AncestorBits == {AncestorArticle, AncestorAside, AncestorBlockquote, AncestorList}

HasBit(x, b) == (x \div b) % 2 = 1

RECURSIVE SumOf(_)
SumOf(S) == IF S = {} THEN 0 ELSE LET b == SetMin(S) IN b + SumOf(S \ {b})

\* Go's x &^ y and x | y on the four ancestor bits.
AndNot(x, y) == SumOf({b \in AncestorBits : HasBit(x, b) /\ ~HasBit(y, b)})
Or(x, y) == SumOf({b \in AncestorBits : HasBit(x, b) \/ HasBit(y, b)})

\* Sample attribute values each pattern matches (case-insensitive search).
ignoreNamesIn(v) == v \in {"related", "related-box"}
ignoreStyleIn(v) == v \in {"display: none", "DISPLAY:none"}
badNamesIn(v) == v \in {"related", "related-box", "hidden"}

\* Bug variant: the style attribute is not looked at.
AttrIgnoredNoStyle(im, at) ==
    IF at.Key \in {"id", "class", "itemprop"}
    THEN IF im = "Article" THEN ignoreNamesIn(at.Val) ELSE badNamesIn(at.Val)
    ELSE FALSE

AttrIgnored(im, at) ==
    IF at.Key \in {"id", "class", "itemprop"}
    THEN IF im = "Article" THEN ignoreNamesIn(at.Val) ELSE badNamesIn(at.Val)
    ELSE IF at.Key = "style" /\ im = "Article" THEN ignoreStyleIn(at.Val)
    ELSE FALSE

Ignored(im, n) == \E i \in 1..Len(Attr(n)) : AttrIgnored(im, Attr(n)[i])

Atomic == {"h1", "h2", "h3", "h4", "h5", "h6", "a"}

\* Bug variant: the bit is masked even when a caller already set it.
AncestorMaskAlways(tag, anc) ==
    CASE tag = "article" -> AncestorArticle
      [] tag = "aside" -> AncestorAside
      [] tag = "blockquote" -> AncestorBlockquote
      [] tag \in {"ul", "ol"} -> AncestorList
      [] OTHER -> 0

\* The bit this element adds: its own bit unless a caller already set it.
AncestorMask(tag, anc) ==
    CASE tag = "article" -> AndNot(AncestorArticle, anc)
      [] tag = "aside" -> AndNot(AncestorAside, anc)
      [] tag = "blockquote" -> AndNot(AncestorBlockquote, anc)
      [] tag \in {"ul", "ol"} -> AndNot(AncestorList, anc)
      [] OTHER -> 0

\* Bug variant: the mask stays set after the element.
LeaveMaskKeep(anc, mask) == anc

\* On the way back up the element removes the mask it added.
LeaveMask(anc, mask) == AndNot(anc, mask)

AppendChunk(art, r0) ==
    CHOOSE v \in
      { IF r.err THEN art ELSE [art EXCEPT !.Chunks = Append(@, r.chunk)] :
          r \in {r0} } : TRUE

\* art is the article's state the walk changes: Chunks and ancestors.
RECURSIVE parseBody(_, _, _, _), parseChildren(_, _, _, _)
parseChildren(im, par, c0, art0) ==
    CHOOSE v \in
      { IF c = Nil THEN art
        ELSE CHOOSE w \in
               { parseChildren(im, par, NextSibling(par, c), a) :
                   a \in {parseBody(im, par, c, art)} } : TRUE :
          c \in {c0}, art \in {art0} } : TRUE

parseBody(im, par, n, art) ==
    IF Type(n) = ElementNode
    THEN IF Ignored(im, n) THEN art
         ELSE IF Data(n) \in Atomic
              THEN AppendChunk(art, NewChunk(par, n, art.ancestors))
              ELSE LET mask == AncestorMask(Data(n), art.ancestors)
                       down == [art EXCEPT !.ancestors = Or(@, mask)]
                   IN CHOOSE v \in
                        { [back EXCEPT !.ancestors = LeaveMask(@, mask)] :
                            back \in {parseChildren(im, par, FirstChild(par, n), down)} } : TRUE
    ELSE IF Type(n) = TextNode
         THEN AppendChunk(art, NewChunk(par, n, art.ancestors))
         ELSE art

ParseBody ==
    /\ pc = "counted"
    /\ LET art == parseBody(impl, parent, Body, [Chunks |-> Chunks, ancestors |-> ancestors])
       IN /\ Chunks' = art.Chunks
          /\ ancestors' = art.ancestors
    /\ pc' = "parsed"
    /\ UNCHANGED <<others, impl, top, nodes, dom, parent, doc, linkText, normText>>

\* ---------------------------------------------------------- chunk linking
\* Chunk pointers are positions in Chunks, counted from 0 as in the code.
\* Bug variant: the first index that gets a Prev is off by one.
LinkBoundsLate(len) == [min |-> 1, max |-> len - 1]

LinkBounds(len) == [min |-> 0, max |-> len - 1]

LinkChunk(cs, i, b) ==
    [cs[i + 1] EXCEPT !.Prev = IF i > b.min THEN i - 1 ELSE @,
                      !.Next = IF i < b.max THEN i + 1 ELSE @]

LinkChunks ==
    /\ pc = "parsed"
    /\ Chunks' = [k \in 1..Len(Chunks) |-> LinkChunk(Chunks, k - 1, LinkBounds(Len(Chunks)))]
    /\ pc' = "done"
    /\ UNCHANGED <<others, impl, top, nodes, dom, parent, doc, ancestors, linkText, normText>>

Next ==
    \/ DocumentInit
    \/ DocumentInitError
    \/ CleanBody
    \/ CountText
    \/ ParseBody
    \/ LinkChunks

Spec == Init /\ [][Next]_vars

\* ============================================================== printChunks
MaxPrint == 3

\* The chunks handed to printChunks: Block is a node or nil, Base.Data a tag
\* name, Text the codepoints that Text.String() returns.
PrintChunkSet ==
    [Block : {Nil, 1, 2}, Base : {"p", "h1"}, Text : {<<"x">>, <<"y", " ", "z">>}]

BoldTags == {"h1", "h2", "h3", "h4", "h5", "h6", "em", "strong", "b"}
BoldOn == <<"ESC", "[", "1", "m">>
BoldOff == <<"ESC", "[", "0", "m">>

\* The delimiter written before a chunk, from the last chunk printed.
DelimFirst(l, chunk) ==
    IF l = Nil THEN <<>>
    ELSE IF printed[1].Block # chunk.Block THEN <<"\n", "\n">> ELSE <<" ">>

Delim(l, chunk) ==
    IF l = Nil THEN <<>>
    ELSE IF printed[l].Block # chunk.Block THEN <<"\n", "\n">> ELSE <<" ">>

Pre(chunk) == IF highlight /\ chunk.Base \in BoldTags THEN BoldOn ELSE <<>>
Pos(chunk) == IF highlight /\ chunk.Base \in BoldTags THEN BoldOff ELSE <<>>

InitPrint ==
    /\ \E n \in 0..MaxPrint : printed \in [1..n -> PrintChunkSet]
    /\ highlight \in BOOLEAN
    /\ printpc = 0
    /\ last = Nil
    /\ stdout = <<>>
    /\ HtmlIdle /\ ClusterIdle /\ MainIdle /\ TextIdle

\* One iteration of the loop: printpc chunks have been printed so far.
PrintChunk ==
    /\ printpc >= 0 /\ printpc < Len(printed)
    /\ LET chunk == printed[printpc + 1] IN
         stdout' = stdout \o Delim(last, chunk) \o Pre(chunk) \o chunk.Text \o Pos(chunk)
    /\ last' = printpc + 1
    /\ printpc' = printpc + 1
    /\ UNCHANGED <<printed, highlight, htmlVars, clusterVars, mainVars, textVars>>

\* fmt.Println() after the loop.
PrintEnd ==
    /\ printpc = Len(printed)
    /\ stdout' = Append(stdout, "\n")
    /\ printpc' = printpc + 1
    /\ UNCHANGED <<printed, highlight, last, htmlVars, clusterVars, mainVars, textVars>>

NextPrint == PrintChunk \/ PrintEnd

SpecPrint == InitPrint /\ [][NextPrint]_vars

\* ========================================================= GetClusterStats
MaxClusterSpine == 4
MaxClusterNodes == 3

maxAncestors == 3

\* Nodes above the body are named by negative numbers: the document root
\* that html.Parse returns, then the nodes of top in order.
Root == -2
Above(i) == Root - i

\* node.Parent for every node of the document.
NodeParent(n) ==
    IF n = Nil THEN Nil
    ELSE IF n = Body THEN Above(top[doc.body].Parent)
    ELSE IF n = Root THEN Nil
    ELSE IF n < Root THEN Above(top[Root - n].Parent)
    ELSE parent[n]

\* Documents for the cluster statistics: a chain of divs below the body and
\* text and divs anywhere in the tree.
KindsCluster == { Txt("no 2"), Txt("k. "), El("div") }

RECURSIVE ShapesAnywhere(_, _)
ShapesAnywhere(n, s) ==
    IF n = 0 THEN {<<>>}
    ELSE LET ext == { Append(p, a) : p \in ShapesAnywhere(n - 1, s),
                                     a \in IF n <= s THEN {n - 1} ELSE 0..(n - 1) }
         IN { p \in ext : n > 1 => OnPath(p, p[n], n - 1) }

InitCluster ==
    \E s \in 0..MaxClusterSpine : \E m \in 0..MaxClusterNodes :
      \E p \in ShapesAnywhere(s + m, s) : \E ks \in [1..m -> KindsCluster] :
        LET ns == [i \in 1..(s + m) |-> IF i <= s THEN El("div") ELSE ks[i - s]]
        IN /\ WellFormed(ns, p)
           /\ InitWith("Article", TopFull, ns, p)

\* The loop condition of the first pass.
AscendOneMore(node, count) == node # Nil /\ count <= maxAncestors

Ascend(node, count) == node # Nil /\ count < maxAncestors

\* One chunk added to the stat of a node.
AddStat(stats, node, chunk) ==
    IF node \in DOMAIN stats
    THEN [stats EXCEPT ![node] = [Words |-> @.Words + chunk.Words,
                                  Sentences |-> @.Sentences + chunk.Sentences,
                                  Count |-> @.Count + 1]]
    ELSE stats @@ (node :> [Words |-> chunk.Words,
                            Sentences |-> chunk.Sentences,
                            Count |-> 1])

RECURSIVE CountChunk(_, _, _, _)
CountChunk(stats, chunk, node, count) ==
    IF Ascend(node, count)
    THEN CountChunk(AddStat(stats, node, chunk), chunk, NodeParent(node), count + 1)
    ELSE stats

RECURSIVE CountChunks(_, _)
CountChunks(stats, i) ==
    IF i > Len(Chunks) THEN stats
    ELSE CountChunks(CountChunk(stats, Chunks[i], Chunks[i].Block, 0), i + 1)

\* The comparison of the second pass.
BetterOrEqual(stat, statPrev) == stat.Count <= statPrev.Count

Better(stat, statPrev) == stat.Count < statPrev.Count

\* The second pass for one chunk: best is the node whose stat is held.
RECURSIVE BestStat(_, _, _)
BestStat(stats, best, node) ==
    LET up == NodeParent(node)
    IN IF up = Nil THEN best
       ELSE IF up \in DOMAIN stats
       THEN BestStat(stats, IF Better(stats[best], stats[up]) THEN up ELSE best, up)
       ELSE best

\* First pass: count TextStats for chunk ancestors.
CountAncestors ==
    /\ pc = "done"
    /\ ancestorStat' = CountChunks(<<>>, 1)
    /\ pc' = "stats"
    /\ UNCHANGED <<result, mainVars, printVars, textVars>>
    /\ UNCHANGED <<impl, top, nodes, dom, parent, doc, Chunks, ancestors, linkText, normText>>

\* Second pass: result[chunk] points at the stat of a node of ancestorStat.
GenerateResult ==
    /\ pc = "stats"
    /\ result' = [i \in {j \in 1..Len(Chunks) : Chunks[j].Block # Nil} |->
                    BestStat(ancestorStat, Chunks[i].Block, Chunks[i].Block)]
    /\ pc' = "clustered"
    /\ UNCHANGED <<ancestorStat, mainVars, printVars, textVars>>
    /\ UNCHANGED <<impl, top, nodes, dom, parent, doc, Chunks, ancestors, linkText, normText>>

NextCluster ==
    \/ DocumentInit
    \/ CleanBody
    \/ CountText
    \/ ParseBody
    \/ LinkChunks
    \/ CountAncestors
    \/ GenerateResult

SpecCluster == InitCluster /\ [][NextCluster]_vars

\* ===================================================================== main
\* inputChannel := make(chan Input, 4)
ChannelCap == 4

\* Sample input data, what html.Parse makes of the bytes behind a location:
\* a div with text and a heading; two relative links; no <head>; an absolute
\* link without text; an empty body.
DocText ==
    [top |-> TopFull, shape |-> <<0, 1, 0, 3>>,
     nodes |-> <<El("div"), Txt("k"), El("h1"), Txt("no 2")>>]
DocLink ==
    [top |-> TopFull, shape |-> <<0, 1, 0>>,
     nodes |-> <<ElA("a", "href", "/x"), Txt("k"), ElA("a", "href", "/x")>>]
DocBroken == [top |-> TopNoHead, shape |-> <<>>, nodes |-> <<>>]
DocAbsolute ==
    [top |-> TopFull, shape |-> <<0>>, nodes |-> <<ElA("a", "href", "http://e/y")>>]
DocEmpty == [top |-> TopFull, shape |-> <<>>, nodes |-> <<>>]

\* Sample command lines: the k-th argument, a file path or a URL, and the
\* data behind it.
ArgNames == <<"a.html", "http://b", "c.html", "https://d", "e.html", "f.html", "g.html">>
ArgData == <<DocText, DocLink, DocBroken, DocAbsolute, DocEmpty, DocLink, DocEmpty>>

HasURLPrefix(l) == l \in {"http://b", "https://d"}

\* The standard input stands for one input with an empty Location.
Stdin == [Location |-> "", Opens |-> TRUE, Data |-> DocText]

\* What the producer goroutine works through: flag.Args(), or stdin.
Inputs(as) == IF Len(as) > 0 THEN as ELSE <<Stdin>>

\* Bug variant: the input is sent whatever http.Get or os.Open returned.
OpenedAlways(arg) == TRUE

\* err == nil after http.Get(arg) or os.Open(arg).
Opened(arg) == IF HasURLPrefix(arg.Location) THEN arg.Opens ELSE arg.Opens

\* Bug variant: a send never waits for room.
CanSendAlways(ch) == TRUE

\* A send on the buffered channel goes through when there is room.
CanSend(ch) == Len(ch) < ChannelCap

\* main returns normally on every path; the process ends with status 0.
ExitOK == 0

Running == mainpc \notin {"idle", "exited"}

InitMain ==
    /\ \E n \in 0..MaxArgs : \E os \in [1..n -> BOOLEAN] :
          args = [i \in 1..n |->
                    [Location |-> ArgNames[i], Opens |-> os[i], Data |-> ArgData[i]]]
    /\ extract \in {"content", "links", "other"}
    /\ highlight \in BOOLEAN
    /\ producer = 0
    /\ inputChannel = <<>>
    /\ closed = FALSE
    /\ input = NoInput
    /\ consumed = <<>>
    /\ Links = <<>>
    /\ mainpc = "start"
    /\ exitStatus = Nil
    /\ printed = <<>> /\ printpc = Nil /\ last = Nil /\ stdout = <<>>
    /\ HtmlIdle /\ ClusterIdle /\ TextIdle

\* inputChannel <- Input{arg, ...}
ProducerSend ==
    /\ Running
    /\ producer < Len(Inputs(args))
    /\ Opened(Inputs(args)[producer + 1])
    /\ CanSend(inputChannel)
    /\ LET arg == Inputs(args)[producer + 1]
       IN inputChannel' = Append(inputChannel, [Location |-> arg.Location, Data |-> arg.Data])
    /\ producer' = producer + 1
    /\ UNCHANGED <<args, extract, closed, input, consumed, Links, mainpc, exitStatus>>
    /\ UNCHANGED <<htmlVars, clusterVars, printVars, textVars>>

\* err != nil: the argument is passed over.
ProducerSkip ==
    /\ Running
    /\ producer < Len(Inputs(args))
    /\ ~Opened(Inputs(args)[producer + 1])
    /\ producer' = producer + 1
    /\ UNCHANGED <<args, extract, inputChannel, closed, input, consumed, Links, mainpc, exitStatus>>
    /\ UNCHANGED <<htmlVars, clusterVars, printVars, textVars>>

\* close(inputChannel)
ProducerClose ==
    /\ Running
    /\ producer = Len(Inputs(args))
    /\ ~closed
    /\ closed' = TRUE
    /\ UNCHANGED <<args, extract, producer, inputChannel, input, consumed, Links, mainpc, exitStatus>>
    /\ UNCHANGED <<htmlVars, clusterVars, printVars, textVars>>

\* switch *extract: the two extraction loops, or no case at all.
MainSwitch ==
    /\ mainpc = "start"
    /\ IF extract \in {"links", "content"}
       THEN mainpc' = "loop" /\ exitStatus' = exitStatus
       ELSE mainpc' = "exited" /\ exitStatus' = ExitOK
    /\ UNCHANGED <<args, extract, producer, inputChannel, closed, input, consumed, Links>>
    /\ UNCHANGED <<htmlVars, clusterVars, printVars, textVars>>

\* for input := range inputChannel: one input is taken, and html.NewArticle
\* or html.NewWebsite starts on a new document parsed from input.Data.
MainReceive ==
    /\ mainpc = "loop"
    /\ inputChannel # <<>>
    /\ input' = Head(inputChannel)
    /\ consumed' = Append(consumed, Head(inputChannel).Location)
    /\ inputChannel' = Tail(inputChannel)
    /\ mainpc' = IF extract = "content" THEN "article" ELSE "website"
    /\ Links' = <<>>
    /\ LET d == Head(inputChannel).Data IN
         /\ impl' = "Article"
         /\ top' = d.top
         /\ nodes' = d.nodes
         /\ dom' = ParentOf(d.shape)
         /\ parent' = ParentOf(d.shape)
    /\ pc' = "start"
    /\ doc' = NilDoc
    /\ Chunks' = <<>>
    /\ ancestors' = 0
    /\ linkText' = <<>>
    /\ normText' = <<>>
    /\ UNCHANGED <<args, extract, producer, closed, exitStatus>>
    /\ UNCHANGED <<clusterVars, printVars, textVars>>

\* Document.init for the article or the website of the current input.
MainDocumentInit == mainpc \in {"article", "website"} /\ DocumentInit
MainDocumentInitError == mainpc \in {"article", "website"} /\ DocumentInitError

\* The rest of Article.init.
MainCleanBody == mainpc = "article" /\ CleanBody
MainCountText == mainpc = "article" /\ CountText
MainParseBody == mainpc = "article" /\ ParseBody
MainLinkChunks == mainpc = "article" /\ LinkChunks

\* err != nil from NewArticle or NewWebsite: on to the next input.
MainInitFailed ==
    /\ mainpc \in {"article", "website"}
    /\ pc = "failed"
    /\ mainpc' = "loop"
    /\ UNCHANGED <<args, extract, producer, inputChannel, closed, input, consumed, Links, exitStatus>>
    /\ UNCHANGED <<htmlVars, clusterVars, printVars, textVars>>

\* ext.Extract: the classifier keeps some of the chunks or links, in order.
RECURSIVE Extract(_)
Extract(s) ==
    IF s = <<>> THEN {<<>>}
    ELSE LET rest == Extract(Tail(s))
         IN rest \cup {<<Head(s)>> \o t : t \in rest}

\* chunks := ext.Extract(article); printChunks(chunks) starts when there are
\* any.  Of a chunk printChunks reads Block, Base.Data and Text.
MainExtractChunks ==
    /\ mainpc = "article"
    /\ pc = "done"
    /\ \E chunks \in Extract(Chunks) :
         IF Len(chunks) > 0
         THEN /\ printed' = [k \in 1..Len(chunks) |->
                              [Block |-> chunks[k].Block, Base |-> Data(chunks[k].Base),
                               Text |-> chunks[k].Text]]
              /\ printpc' = 0
              /\ last' = Nil
              /\ mainpc' = "print"
         ELSE /\ mainpc' = "loop"
              /\ UNCHANGED <<printed, printpc, last>>
    /\ UNCHANGED <<args, extract, producer, inputChannel, closed, input, consumed, Links, exitStatus>>
    /\ UNCHANGED <<highlight, stdout, htmlVars, clusterVars, textVars>>

\* The loop and the last line of printChunks.
MainPrintChunk == mainpc = "print" /\ PrintChunk
MainPrintEnd == mainpc = "print" /\ PrintEnd

\* printChunks returns.
MainPrinted ==
    /\ mainpc = "print"
    /\ printpc = Len(printed) + 1
    /\ mainpc' = "loop"
    /\ UNCHANGED <<args, extract, producer, inputChannel, closed, input, consumed, Links, exitStatus>>
    /\ UNCHANGED <<htmlVars, clusterVars, printVars, textVars>>

\* iterateNode over the body with IterSkip at every <a>: the links outside of
\* other links, in document order.
RECURSIVE UnderLink(_, _)
UnderLink(par, n) ==
    IF par[n] = Nil \/ par[n] = Body THEN FALSE
    ELSE Data(par[n]) = "a" \/ UnderLink(par, par[n])

\* NewLink: the href of the element, an error without one.
NewLink(n) ==
    LET hrefs == {i \in 1..Len(Attr(n)) : Attr(n)[i].Key = "href"}
    IN IF hrefs = {} THEN [err |-> TRUE]
       ELSE [err |-> FALSE, URL |-> Attr(n)[SetMin(hrefs)].Val]

RECURSIVE FindLinks(_, _)
FindLinks(par, S) ==
    IF S = {} THEN <<>>
    ELSE LET n == SetMin(S)
             rest == FindLinks(par, S \ {n})
         IN IF NewLink(n).err THEN rest ELSE <<NewLink(n).URL>> \o rest

\* Link.Resolve: a relative URL gets protocol and domain from a base that is
\* a URL.
Resolve(base, u) ==
    IF u = "http://e/y" \/ ~HasURLPrefix(base) THEN u
    ELSE CASE base = "http://b" /\ u = "/x" -> "http://b/x"
           [] base = "https://d" /\ u = "/x" -> "https://d/x"
           [] OTHER -> u

\* The rest of Website.init: all links of the body.  (website.Feeds comes
\* from link elements under the head; the sample heads have none, and main
\* prints no feed.)
WebsiteInit ==
    /\ mainpc = "website"
    /\ pc = "loaded"
    /\ Links' = FindLinks(parent, {n \in DOMAIN parent :
                                    /\ n # Body /\ Type(n) = ElementNode
                                    /\ Data(n) = "a" /\ ~UnderLink(parent, n)})
    /\ pc' = "done"
    /\ UNCHANGED <<args, extract, producer, inputChannel, closed, input, consumed, mainpc, exitStatus>>
    /\ UNCHANGED <<impl, top, nodes, dom, parent, doc, Chunks, ancestors, linkText, normText>>
    /\ UNCHANGED <<clusterVars, printVars, textVars>>

\* website.ResolveBase(input.Location)
MainResolveBase ==
    /\ mainpc = "website"
    /\ pc = "done"
    /\ Links' = [k \in 1..Len(Links) |-> Resolve(input.Location, Links[k])]
    /\ mainpc' = "links"
    /\ UNCHANGED <<args, extract, producer, inputChannel, closed, input, consumed, exitStatus>>
    /\ UNCHANGED <<htmlVars, clusterVars, printVars, textVars>>

\* links := ext.Extract(website); printLinks(links) starts when there are any.
MainExtractLinks ==
    /\ mainpc = "links"
    /\ \E links \in Extract(Links) :
         IF Len(links) > 0
         THEN /\ printed' = links
              /\ printpc' = 0
              /\ mainpc' = "printlinks"
         ELSE /\ mainpc' = "loop"
              /\ UNCHANGED <<printed, printpc>>
    /\ UNCHANGED <<args, extract, producer, inputChannel, closed, input, consumed, Links, exitStatus>>
    /\ UNCHANGED <<highlight, last, stdout, htmlVars, clusterVars, textVars>>

\* One iteration of the loop of printLinks: fmt.Println(link.URL).
MainPrintLink ==
    /\ mainpc = "printlinks"
    /\ printpc < Len(printed)
    /\ stdout' = stdout \o <<printed[printpc + 1], "\n">>
    /\ printpc' = printpc + 1
    /\ UNCHANGED <<printed, highlight, last, htmlVars, clusterVars, mainVars, textVars>>

\* printLinks returns.
MainLinksPrinted ==
    /\ mainpc = "printlinks"
    /\ printpc = Len(printed)
    /\ mainpc' = "loop"
    /\ UNCHANGED <<args, extract, producer, inputChannel, closed, input, consumed, Links, exitStatus>>
    /\ UNCHANGED <<htmlVars, clusterVars, printVars, textVars>>

\* The range loop ends on the closed, drained channel and main returns.
MainReturn ==
    /\ mainpc = "loop"
    /\ inputChannel = <<>>
    /\ closed
    /\ mainpc' = "exited"
    /\ exitStatus' = ExitOK
    /\ UNCHANGED <<args, extract, producer, inputChannel, closed, input, consumed, Links>>
    /\ UNCHANGED <<htmlVars, clusterVars, printVars, textVars>>

ProducerStep == ProducerSend \/ ProducerSkip \/ ProducerClose

MainStep ==
    \/ MainSwitch
    \/ MainReceive
    \/ MainDocumentInit
    \/ MainDocumentInitError
    \/ MainCleanBody
    \/ MainCountText
    \/ MainParseBody
    \/ MainLinkChunks
    \/ MainInitFailed
    \/ MainExtractChunks
    \/ MainPrintChunk
    \/ MainPrintEnd
    \/ MainPrinted
    \/ WebsiteInit
    \/ MainResolveBase
    \/ MainExtractLinks
    \/ MainPrintLink
    \/ MainLinksPrinted
    \/ MainReturn

NextMain ==
    \/ ProducerSend
    \/ ProducerSkip
    \/ ProducerClose
    \/ MainSwitch
    \/ MainReceive
    \/ MainDocumentInit
    \/ MainDocumentInitError
    \/ MainCleanBody
    \/ MainCountText
    \/ MainParseBody
    \/ MainLinkChunks
    \/ MainInitFailed
    \/ MainExtractChunks
    \/ MainPrintChunk
    \/ MainPrintEnd
    \/ MainPrinted
    \/ WebsiteInit
    \/ MainResolveBase
    \/ MainExtractLinks
    \/ MainPrintLink
    \/ MainLinksPrinted
    \/ MainReturn

\* The Go scheduler runs every goroutine that can take a step.
SpecMain == InitMain /\ [][NextMain]_vars /\ WF_vars(ProducerStep) /\ WF_vars(MainStep)

\* ================================================================ properties
Linked == pc = "done"
Walked == pc \in {"parsed", "done"}
Cleaned == pc \in {"cleaned", "counted", "parsed", "done"}
Counted == pc \in {"counted", "parsed", "done"}

Elements(par) == {n \in DOMAIN par : n # Body /\ Type(n) = ElementNode /\ InTree(par, n)}

EnclosedBy(par, n, tags) ==
    \E a \in DOMAIN par : IsAncestor(par, a, n) /\ Type(a) = ElementNode /\ Data(a) \in tags

ContainerTags(b) ==
    CASE b = AncestorArticle -> {"article"}
      [] b = AncestorAside -> {"aside"}
      [] b = AncestorBlockquote -> {"blockquote"}
      [] b = AncestorList -> {"ul", "ol"}

\* C1: after the linking loop, chunk i's Prev is chunk i-1 and its Next is
\* chunk i+1; the first chunk has no Prev and the last no Next (also with one
\* chunk or none).
C1_ChunksLinked ==
    Linked =>
        \A i \in 0..(Len(Chunks) - 1) :
            /\ Chunks[i + 1].Prev = (IF i = 0 THEN Nil ELSE i - 1)
            /\ Chunks[i + 1].Next = (IF i = Len(Chunks) - 1 THEN Nil ELSE i + 1)

C1_Witness == Linked /\ Len(Chunks) >= 3

\* C2: a chunk made from a node enclosed by an <article> (<aside>,
\* <blockquote>, <ul>/<ol>) carries that container's bit, whatever the nesting.
C2_EnclosedBitSet ==
    Walked =>
        \A k \in 1..Len(Chunks) : \A b \in AncestorBits :
            EnclosedBy(parent, Chunks[k].Origin, ContainerTags(b))
                => HasBit(Chunks[k].Ancestors, b)

\* A chunk of the outer container made after the walk left a nested container
\* of the same kind.
C2_Witness ==
    /\ Walked
    /\ \E k \in 1..Len(Chunks) : \E b \in AncestorBits : \E o, i \in Elements(parent) :
        /\ Data(o) \in ContainerTags(b) /\ Data(i) \in ContainerTags(b)
        /\ IsAncestor(parent, o, i)
        /\ IsAncestor(parent, o, Chunks[k].Origin)
        /\ ~IsAncestor(parent, i, Chunks[k].Origin)
        /\ i < Chunks[k].Origin
        /\ HasBit(Chunks[k].Ancestors, b)

\* C3: a chunk made from a node that no <article> (<aside>, <blockquote>,
\* <ul>/<ol>) encloses has that bit clear, and the mask is 0 when parseBody
\* has returned from the body.
C3_BitsCleared ==
    Walked =>
        /\ ancestors = 0
        /\ \A k \in 1..Len(Chunks) : \A b \in AncestorBits :
              ~EnclosedBy(parent, Chunks[k].Origin, ContainerTags(b))
                  => ~HasBit(Chunks[k].Ancestors, b)

\* A chunk after a container that held a chunk of its own.
C3_Witness ==
    /\ Walked
    /\ \E k, j \in 1..Len(Chunks) : \E b \in AncestorBits :
        /\ j < k
        /\ HasBit(Chunks[j].Ancestors, b)
        /\ ~HasBit(Chunks[k].Ancestors, b)

\* C4: cleaning the cleaned tree again removes nothing.
C4_CleanIdempotent == Cleaned => cleanBody(parent, Body, 0) = parent

\* The first run removed an element and kept a later sibling of it.
C4_Witness ==
    /\ pc = "cleaned"
    /\ \E r, k \in DOMAIN parent :
        /\ r # Body /\ parent[r] = Nil
        /\ r < k /\ dom[k] = dom[r] /\ InTree(parent, k)

\* C5: no element with a tag of the structural blacklist is left below the
\* body, at any depth, also next to other removed elements.
C5_NoBlacklistedLeft ==
    Cleaned => \A n \in Elements(parent) : Data(n) \notin StructuralBlacklist

\* Two adjacent blacklisted siblings, both removed.
C5_Witness ==
    /\ pc = "cleaned"
    /\ \E r, k \in DOMAIN parent :
        /\ r # Body /\ k = r + 1 /\ dom[k] = dom[r]
        /\ Data(r) \in StructuralBlacklist /\ Data(k) \in StructuralBlacklist
        /\ parent[r] = Nil /\ parent[k] = Nil

\* An element the name blacklist or the display:none pattern matches.
MatchesBlacklist(n) ==
    /\ Type(n) = ElementNode
    /\ \E i \in 1..Len(Attr(n)) :
        \/ /\ Attr(n)[i].Key \in {"id", "class", "itemprop"}
           /\ Attr(n)[i].Val \in {"related", "related-box"}
        \/ /\ Attr(n)[i].Key = "style"
           /\ Attr(n)[i].Val \in {"display: none", "DISPLAY:none"}

\* Number of elements between the body and n in the tree par.
RECURSIVE Level(_, _)
Level(par, n) == IF par[n] = Body \/ par[n] = Nil THEN 0 ELSE 1 + Level(par, par[n])

AncestorsOrSelf(par, n) == {a \in DOMAIN par : a # Body /\ (a = n \/ IsAncestor(par, a, n))}

RemovedForTag(a) ==
    /\ Type(a) = ElementNode
    /\ \/ Data(a) \in StructuralBlacklist
       \/ Data(a) = "table" /\ Level(dom, a) > 5

RECURSIVE SumOver(_, _)
SumOver(f, S) ==
    IF S = {} THEN 0 ELSE LET x == SetMin(S) IN f[x] + SumOver(f, S \ {x})

Letters == [n \in DOMAIN parent |-> IF Type(n) = TextNode THEN LetterCount(Data(n)) ELSE 0]

SubtreeOf(par, n) == {d \in DOMAIN par : d = n \/ IsAncestor(par, n, d)}

\* C6 as stated: the cleaner removes every element the name blacklist or the
\* display:none pattern matches, so the link-density map never counts letters
\* inside such an element.
C6_CleanerRemovesMatched ==
    /\ Cleaned => \A n \in Elements(parent) : ~MatchesBlacklist(n)
    /\ Counted => \A n \in Elements(parent) :
                     MatchesBlacklist(n) => linkText[n] + normText[n] = 0

\* C6 amended: the cleaner removes by tag only.  An element the name blacklist
\* or the display:none pattern matches stays in the body tree unless it or an
\* ancestor is removed for its tag, and the link-density map counts every
\* letter of the text below it.
C6_MatchedKeptAndCounted ==
    /\ Cleaned =>
         \A n \in DOMAIN parent :
            MatchesBlacklist(n) =>
                (InTree(parent, n) <=> \A a \in AncestorsOrSelf(dom, n) : ~RemovedForTag(a))
    /\ Counted =>
         \A n \in Elements(parent) :
            MatchesBlacklist(n) =>
                linkText[n] + normText[n] = SumOver(Letters, SubtreeOf(parent, n))

C6_Witness ==
    /\ Counted
    /\ \E n \in Elements(parent) : MatchesBlacklist(n) /\ linkText[n] + normText[n] > 0

\* C7: a <table> the cleaner reaches is removed exactly when its level is
\* greater than 5; a retained table is descended into, so no blacklisted
\* element and no table deeper than 5 survives inside it.
C7_TableDepth ==
    Cleaned =>
        \A t \in DOMAIN parent :
            (t # Body /\ Type(t) = ElementNode /\ Data(t) = "table" /\ InTree(parent, dom[t])) =>
                /\ parent[t] = Nil <=> Level(dom, t) > 5
                /\ \A d \in Elements(parent) :
                      IsAncestor(parent, t, d) =>
                          /\ Data(d) \notin StructuralBlacklist
                          /\ Data(d) = "table" => Level(dom, d) <= 5

\* A table kept at level 5 with a table removed at level 6 inside it.
C7_Witness ==
    /\ pc = "cleaned"
    /\ \E t, d \in DOMAIN parent :
        /\ t # Body /\ Data(t) = "table" /\ Level(dom, t) = 5 /\ InTree(parent, t)
        /\ dom[d] = t /\ Type(d) = ElementNode /\ Data(d) = "table" /\ parent[d] = Nil

\* C8: for every node of the cleaned body both counts are >= 0 and each is
\* the sum over the node's children plus the node's own letters, which go to
\* linkText for a text node below an <a> and to normText for any other text
\* node.
C8_CountsAreSums ==
    Counted =>
        \A n \in DOMAIN parent :
            InTree(parent, n) =>
                LET own == IF Type(n) = TextNode THEN LetterCount(Data(n)) ELSE 0
                    inLink == EnclosedBy(parent, n, {"a"})
                    kids == ChildrenOf(parent, n)
                IN /\ n \in DOMAIN linkText /\ n \in DOMAIN normText
                   /\ linkText[n] >= 0 /\ normText[n] >= 0
                   /\ linkText[n] = SumOver(linkText, kids) + (IF inLink THEN own ELSE 0)
                   /\ normText[n] = SumOver(normText, kids) + (IF inLink THEN 0 ELSE own)
                   /\ linkText[n] <= linkText[n] + normText[n]

\* Text below a link and text outside any link in one body.
C8_Witness ==
    /\ Counted
    /\ linkText[Body] > 0 /\ normText[Body] > 0
    /\ \E n \in DOMAIN parent :
        /\ InTree(parent, n) /\ Type(n) = TextNode /\ LetterCount(Data(n)) > 0
        /\ EnclosedBy(parent, n, {"a"})

\* C9: every chunk of Article.parseBody comes from a text node or an h1..h6/a
\* element, none from the subtree of an element the name blacklist or the
\* display:none pattern matches, none from inside an h1..h6/a element, and
\* the chunks are in document order (so no node gives two chunks).
C9_ChunkOrigins ==
    (Walked /\ impl = "Article") =>
        /\ \A k \in 1..Len(Chunks) :
            LET n == Chunks[k].Origin
            IN /\ InTree(parent, n) /\ n # Body
               /\ Type(n) = TextNode \/ (Type(n) = ElementNode /\ Data(n) \in Atomic)
               /\ \A a \in AncestorsOrSelf(parent, n) \cup {Body} : ~MatchesBlacklist(a)
               /\ ~EnclosedBy(parent, n, Atomic)
        /\ \A j, k \in 1..Len(Chunks) : j < k => Chunks[j].Origin < Chunks[k].Origin

\* Text below a display:none element gives no chunk while other text does.
C9_Witness ==
    /\ Walked /\ impl = "Article" /\ Len(Chunks) > 0
    /\ \E n \in DOMAIN parent :
        /\ InTree(parent, n) /\ Type(n) = TextNode /\ LetterCount(Data(n)) > 0
        /\ \E a \in AncestorsOrSelf(parent, n) :
              MatchesBlacklist(a) /\ Attr(a)[1].Key = "style"
        /\ \A k \in 1..Len(Chunks) : Chunks[k].Origin # n

TopHas(d) == \E i \in 1..Len(top) : top[i].Data = d

\* C10: loading fails exactly when <html>, <head> or <body> is missing from
\* the parsed tree; then nothing runs: the tree is not cleaned, nothing is
\* counted and no chunk exists.  With all three present the later steps run.
C10_MissingNodesFail ==
    pc # "start" =>
        /\ pc = "failed" <=> ~(TopHas("html") /\ TopHas("head") /\ TopHas("body"))
        /\ pc = "failed" =>
              /\ Chunks = <<>> /\ parent = dom
              /\ linkText = <<>> /\ normText = <<>>

\* A document with a body that holds text but without a <head>.
C10_Witness ==
    /\ pc = "failed" /\ TopHas("body") /\ ~TopHas("head")
    /\ \E n \in DOMAIN parent : Type(n) = TextNode

\* ------------------------------------------------------------------- main
Extracting == extract \in {"content", "links"}

\* The locations of the first k inputs that opened, in command-line order.
RECURSIVE OpenedUpTo(_, _)
OpenedUpTo(ins, k) ==
    IF k = 0 THEN <<>>
    ELSE IF ins[k].Opens THEN Append(OpenedUpTo(ins, k - 1), ins[k].Location)
    ELSE OpenedUpTo(ins, k - 1)

FailedArgs == {i \in 1..Len(args) : ~args[i].Opens}

\* C11 as stated: when an argument cannot be opened or fetched, main ends
\* with a non-zero exit status.
C11_NonZeroOnFailure ==
    (mainpc = "exited" /\ Extracting /\ FailedArgs # {}) => exitStatus # 0

\* C11 amended: main ends with exit status 0 also when arguments cannot be
\* opened or fetched; such arguments are passed over and never reach the
\* extraction loop.
C11_AlwaysExitsZero ==
    /\ mainpc = "exited" => exitStatus = 0
    /\ \A i \in FailedArgs : \A k \in 1..Len(consumed) : consumed[k] # args[i].Location
    /\ \A i \in FailedArgs :
         \A k \in 1..Len(inputChannel) : inputChannel[k].Location # args[i].Location

C11_Witness ==
    /\ mainpc = "exited" /\ Extracting /\ closed
    /\ FailedArgs # {} /\ Len(consumed) >= 1

C16_Safe ==
    /\ Len(inputChannel) <= ChannelCap
    /\ consumed \o [k \in 1..Len(inputChannel) |-> inputChannel[k].Location]
         = OpenedUpTo(Inputs(args), producer)
    /\ closed => producer = Len(Inputs(args))
    /\ (mainpc = "exited" /\ Extracting) =>
          /\ closed /\ inputChannel = <<>>
          /\ consumed = OpenedUpTo(Inputs(args), Len(Inputs(args)))

\* C16: every input that opens is sent once and taken once, in command-line
\* order; the channel never holds more than 4 inputs; the producer closes it
\* after the last input; and with --extract content or links main's loop ends
\* and main returns.
C16_ChannelHandoff == []C16_Safe /\ <>(Extracting => mainpc = "exited")

\* More inputs than the channel holds, all taken, main returned.
C16_Witness == mainpc = "exited" /\ Extracting /\ Len(consumed) > ChannelCap

\* ------------------------------------------------------------- printChunks
RECURSIVE Flatten(_)
Flatten(ss) == IF ss = <<>> THEN <<>> ELSE Head(ss) \o Flatten(Tail(ss))

\* What the claim expects for chunk i of the argument: nothing before the
\* first chunk, one delimiter chosen by the previous chunk's Block otherwise.
Separator(i) ==
    IF i = 1 THEN <<>>
    ELSE IF printed[i - 1].Block = printed[i].Block THEN <<" ">>
    ELSE <<"\n", "\n">>

Bold(i) == highlight /\ printed[i].Base \in BoldTags

Shown(i) ==
    IF Bold(i) THEN BoldOn \o printed[i].Text \o BoldOff ELSE printed[i].Text

ExpectedOut(k) == Flatten([i \in 1..k |-> Separator(i) \o Shown(i)])

\* The length of the output is that of the texts and escapes plus exactly
\* k-1 delimiters.
RECURSIVE SumLen(_, _)
SumLen(f, k) == IF k = 0 THEN 0 ELSE Len(f[k]) + SumLen(f, k - 1)

Printing == printpc >= 0

\* C12: printChunks writes the chunks in order with nothing before the first
\* one and, between two consecutive chunks, exactly one delimiter: a space
\* when they have the same Block, two newlines when the Blocks differ; k
\* chunks are written with k-1 delimiters, each chosen from the chunk printed
\* immediately before, and a single newline ends the output.
C12_PrintDelimiters ==
    Printing =>
        LET k == IF printpc > Len(printed) THEN Len(printed) ELSE printpc
            end == IF printpc > Len(printed) THEN <<"\n">> ELSE <<>>
        IN  /\ stdout = ExpectedOut(k) \o end
            /\ Len(stdout) = SumLen([i \in 1..k |-> Shown(i)], k) + Len(end)
                             + SumLen([i \in 1..k |-> Separator(i)], k)
            /\ last = (IF k = 0 THEN Nil ELSE k)

\* All of a three-chunk argument printed, a space and a paragraph break both
\* written, the second delimiter differing from what the first chunk's Block
\* would give.
C12_Witness ==
    /\ printpc = Len(printed) + 1
    /\ Len(printed) = 3
    /\ printed[1].Block = printed[2].Block
    /\ printed[2].Block # printed[3].Block
    /\ printed[1].Base # printed[2].Base
    /\ highlight

\* --------------------------------------------------------------- util.Text
\* C13: after any sequence of write calls on any codepoints, terminal
\* punctuation without a preceding word included, the accumulator has
\* counted at least as many words as sentences.
C13_WordsAtLeastSentences ==
    mode \in {"Space", "Word", "Punct"} => words >= sentences

\* --------------------------------------------------------- GetClusterStats
\* Every node of the document: the body and what is below it, the document
\* root and the nodes of top.
AllNodes == DOMAIN parent \cup {Above(i) : i \in 0..Len(top)}

\* Chunk i has its Block at n, at a child of n or at a grandchild of n.
Within(n, i) ==
    LET b == Chunks[i].Block
    IN /\ b # Nil
       /\ \/ b = n
          \/ NodeParent(b) = n
          \/ NodeParent(NodeParent(b)) = n

Contributors(n) == {i \in 1..Len(Chunks) : Within(n, i)}

ChunkWords == [i \in 1..Len(Chunks) |-> Chunks[i].Words]
ChunkSentences == [i \in 1..Len(Chunks) |-> Chunks[i].Sentences]

FirstPassDone == pc \in {"stats", "clustered"}

\* C14: after the first pass the stat of a node counts the chunks whose Block
\* is the node, a child of it or a grandchild of it, and sums their words and
\* sentences; a node no chunk reaches within that distance has no entry, and
\* a chunk is counted at no more than three nodes.
C14_AncestorCounts ==
    FirstPassDone =>
        /\ DOMAIN ancestorStat \subseteq AllNodes
        /\ \A n \in AllNodes :
             IF Contributors(n) = {} THEN n \notin DOMAIN ancestorStat
             ELSE /\ n \in DOMAIN ancestorStat
                  /\ ancestorStat[n].Count = Cardinality(Contributors(n))
                  /\ ancestorStat[n].Words = SumOver(ChunkWords, Contributors(n))
                  /\ ancestorStat[n].Sentences = SumOver(ChunkSentences, Contributors(n))
        /\ SumOver([n \in DOMAIN ancestorStat |-> ancestorStat[n].Count], DOMAIN ancestorStat)
             <= maxAncestors * Len(Chunks)

\* A node counts chunks of its own, of a child and of a grandchild, with
\* words and sentences, while a chunk three levels below a node with an
\* entry is not counted there.
C14_Witness ==
    /\ pc = "stats"
    /\ \E n \in DOMAIN ancestorStat :
         /\ ancestorStat[n].Count >= 3
         /\ ancestorStat[n].Sentences >= 1
         /\ \E i, j, k \in Contributors(n) :
              /\ Chunks[i].Block = n
              /\ NodeParent(Chunks[j].Block) = n
              /\ NodeParent(NodeParent(Chunks[k].Block)) = n
    /\ \E i \in 1..Len(Chunks) :
         LET far == NodeParent(NodeParent(NodeParent(Chunks[i].Block)))
         IN /\ far \in DOMAIN ancestorStat
            /\ i \notin Contributors(far)
            /\ ancestorStat[far].Count < Len(Chunks)

\* The Block of chunk i and the ancestors above it that have an entry, up to
\* the first one without.
RECURSIVE UnbrokenChain(_)
UnbrokenChain(n) ==
    LET up == NodeParent(n)
    IN IF up # Nil /\ up \in DOMAIN ancestorStat
       THEN <<n>> \o UnbrokenChain(up)
       ELSE <<n>>

\* The deepest node of the chain with the largest Count.
DeepestMax(c) ==
    LET best == {k \in 1..Len(c) :
                   \A j \in 1..Len(c) : ancestorStat[c[j]].Count <= ancestorStat[c[k]].Count}
    IN c[SetMin(best)]

RECURSIVE ProperAncestor(_, _)
ProperAncestor(a, n) ==
    LET up == NodeParent(n)
    IN IF up = Nil THEN FALSE ELSE up = a \/ ProperAncestor(a, up)

\* C15: the second pass gives every chunk with a Block the stat of the
\* deepest node with the largest Count among the Block and the ancestors
\* above it that have entries without a gap; its Count is at least that of
\* the Block, which is at least 1.
C15_DeepestBestStat ==
    pc = "clustered" =>
        /\ DOMAIN result = {i \in 1..Len(Chunks) : Chunks[i].Block # Nil}
        /\ \A i \in DOMAIN result :
             /\ result[i] = DeepestMax(UnbrokenChain(Chunks[i].Block))
             /\ ancestorStat[result[i]].Count >= ancestorStat[Chunks[i].Block].Count
             /\ ancestorStat[Chunks[i].Block].Count >= 1

\* One chunk stops below an ancestor without an entry although a node
\* further up has a larger Count, and another keeps its Block's stat on a tie
\* with the parent.
C15_Witness ==
    /\ pc = "clustered"
    /\ \E i \in DOMAIN result :
         LET c == UnbrokenChain(Chunks[i].Block)
             gap == NodeParent(c[Len(c)])
         IN /\ gap # Nil
            /\ gap \notin DOMAIN ancestorStat
            /\ \E a \in DOMAIN ancestorStat :
                 /\ ProperAncestor(a, gap)
                 /\ ancestorStat[a].Count > ancestorStat[result[i]].Count
    /\ \E i \in DOMAIN result :
         /\ result[i] = Chunks[i].Block
         /\ ancestorStat[NodeParent(Chunks[i].Block)].Count = ancestorStat[result[i]].Count

\* Some chunk is given the stat of an ancestor with a larger Count than its
\* Block has.
C15_WitnessBetter ==
    /\ pc = "clustered"
    /\ \E i \in DOMAIN result : result[i] # Chunks[i].Block

====
